---------------------------- MODULE Spec2Model ----------------------------
(***************************************************************************)
(* A model of update_takeout_metadata.py: the date-resolution chain, the   *)
(* sidecar matcher, the exiftool write/validate step with its rename and   *)
(* retry, and the main loop with its counters.                             *)
(*                                                                         *)
(* Strings the program parses (file names, folder names, JSON string       *)
(* values) are sequences of one-character strings; strings the program     *)
(* builds (the canonical date) are TLA+ strings.  The alphabet of the      *)
(* inputs is letters, digits, space and the characters . , : _             *)
(***************************************************************************)
EXTENDS Integers, Sequences, FiniteSets, TLC

VARIABLES
    dirName,     \* name of the folder holding the files (file_path.parent.name)
    listing,     \* the folder's entries in directory-listing order: [name, id]
    exif,        \* id -> the DateTimeOriginal stored in the file ("" when none)
    all_files,   \* main: the enumerated media files, [name, id], in walk order
    idx,         \* main: number of files whose loop iteration has begun
    pc,          \* position in main / update_exif
    json_data,   \* main: the sidecar's parsed content (JNone when none)
    cur_path,    \* update_exif: file_path of the current invocation
    depth,       \* update_exif: number of recursive re-invocations so far
    date_str,    \* update_exif: what resolve_date returned
    stderr,      \* update_exif: result.stderr of the last write attempt
    rc,          \* update_exif: result.returncode of the last write attempt
    cmd,         \* update_exif: the optional arguments of the last write command
    status,      \* what update_exif returned, or how the iteration ended
    error,       \* the reason that goes with status
    updated, skipped, failed,    \* main: the three counters
    run,         \* which run of the tool this is (1 or 2)
    tool,        \* "any": the external tool may answer anything; "faithful"
    log,         \* history: per run, the outcome of each file by id
    hist,        \* history: facts about the current file's attempts
    actual,      \* update_exif: the DateTimeOriginal the validation read back
    match,       \* find_matching_json's last result (an entry, or NoEntry)
    listing0     \* history: the listing as it was when the run enumerated it

vars == <<dirName, listing, exif, all_files, idx, pc, json_data, cur_path,
          depth, date_str, stderr, rc, cmd, status, error, updated, skipped,
          failed, run, tool, log, hist, actual, match, listing0>>

(***************************************************************************)
(* Bounds of the model.                                                    *)
(***************************************************************************)
\* Most entries a folder holds initially.
MaxEntries == 3
\* The interpreter's recursion limit, scaled down: update_exif nested this
\* deep raises RecursionError.
RecursionLimit == 2

None == "None"
NoName == <<"/">>

(***************************************************************************)
(* Characters and strings.                                                 *)
(***************************************************************************)
Digits == <<"0", "1", "2", "3", "4", "5", "6", "7", "8", "9">>
UpperChars == <<"A", "B", "C", "E", "F", "G", "H", "I", "J", "M", "P", "T">>
LowerChars == <<"a", "b", "c", "e", "f", "g", "h", "i", "j", "m", "p", "t">>

IsDigit(c) == \E i \in 1..10 : Digits[i] = c
DigitVal(c) == (CHOOSE i \in 1..10 : Digits[i] = c) - 1

\* str.lower(), character by character
LowerChar(c) ==
    IF \E i \in 1..Len(UpperChars) : UpperChars[i] = c
    THEN LowerChars[CHOOSE i \in 1..Len(UpperChars) : UpperChars[i] = c]
    ELSE c
Lower(s) == [i \in 1..Len(s) |-> LowerChar(s[i])]

StartsWith(s, p) == Len(p) <= Len(s) /\ SubSeq(s, 1, Len(p)) = p
EndsWith(s, p) == Len(p) <= Len(s) /\ SubSeq(s, Len(s) - Len(p) + 1, Len(s)) = p

\* str.strip(): leading and trailing whitespace removed
RECURSIVE LStrip(_)
LStrip(s) == IF s # <<>> /\ Head(s) = " " THEN LStrip(Tail(s)) ELSE s
RECURSIVE RStrip(_)
RStrip(s) == IF s # <<>> /\ s[Len(s)] = " " THEN RStrip(SubSeq(s, 1, Len(s) - 1)) ELSE s
Strip(s) == RStrip(LStrip(s))

\* str.split(): split on runs of whitespace, no empty pieces
RECURSIVE SplitWS(_, _, _)
SplitWS(s, cur, acc) ==
    IF s = <<>> THEN (IF cur = <<>> THEN acc ELSE Append(acc, cur))
    ELSE IF Head(s) = " "
         THEN SplitWS(Tail(s), <<>>, IF cur = <<>> THEN acc ELSE Append(acc, cur))
         ELSE SplitWS(Tail(s), Append(cur, Head(s)), acc)

\* str.split(sep): empty pieces are kept
RECURSIVE SplitOn(_, _, _, _)
SplitOn(s, sep, cur, acc) ==
    IF s = <<>> THEN Append(acc, cur)
    ELSE IF Head(s) = sep
         THEN SplitOn(Tail(s), sep, <<>>, Append(acc, cur))
         ELSE SplitOn(Tail(s), sep, Append(cur, Head(s)), acc)

\* int(str) succeeds on a non-empty run of digits (the alphabet has no sign)
IntOk(s) == s # <<>> /\ \A i \in 1..Len(s) : IsDigit(s[i])
RECURSIVE IntOf(_)
IntOf(s) == IF s = <<>> THEN 0 ELSE 10 * IntOf(SubSeq(s, 1, Len(s) - 1)) + DigitVal(s[Len(s)])

\* the characters of s as one string
RECURSIVE Text(_)
Text(s) == IF s = <<>> THEN "" ELSE Head(s) \o Text(Tail(s))

\* "%02d" / ":02d" and ":04d"
Pad2(n) == IF n < 10 THEN "0" \o ToString(n) ELSE ToString(n)
Pad4(n) == IF n < 10 THEN "000" \o ToString(n)
           ELSE IF n < 100 THEN "00" \o ToString(n)
           ELSE IF n < 1000 THEN "0" \o ToString(n) ELSE ToString(n)

\* pathlib: PurePath.suffix, .stem and .with_suffix on a file name
LastDot(name) ==
    IF \E i \in 1..Len(name) : name[i] = "."
    THEN CHOOSE i \in 1..Len(name) :
            name[i] = "." /\ \A j \in (i + 1)..Len(name) : name[j] # "."
    ELSE 0
HasSuffix(name) == 1 < LastDot(name) /\ LastDot(name) < Len(name)
PathSuffix(name) == IF HasSuffix(name) THEN SubSeq(name, LastDot(name), Len(name)) ELSE <<>>
PathStem(name) == IF HasSuffix(name) THEN SubSeq(name, 1, LastDot(name) - 1) ELSE name
WithSuffix(name, suffix) == PathStem(name) \o suffix

(***************************************************************************)
(* datetime: validation, strftime("%Y:%m:%d %H:%M:%S"), utcfromtimestamp.  *)
(***************************************************************************)
IsLeap(y) == (y % 4 = 0 /\ y % 100 # 0) \/ y % 400 = 0
DaysInMonth(y, m) ==
    IF m = 2 THEN (IF IsLeap(y) THEN 29 ELSE 28)
    ELSE IF m \in {4, 6, 9, 11} THEN 30 ELSE 31

\* datetime.datetime(...) raises ValueError outside these ranges
ValidDateTime(y, mo, d, h, mi, s) ==
    /\ y \in 1..9999 /\ mo \in 1..12
    /\ d >= 1 /\ d <= DaysInMonth(y, mo)
    /\ h \in 0..23 /\ mi \in 0..59 /\ s \in 0..59

\* dt.strftime("%Y:%m:%d %H:%M:%S"); the C library's %Y does not pad
Strftime(y, mo, d, h, mi, s) ==
    ToString(y) \o ":" \o Pad2(mo) \o ":" \o Pad2(d) \o " "
        \o Pad2(h) \o ":" \o Pad2(mi) \o ":" \o Pad2(s)

\* datetime.utcfromtimestamp(t).strftime(...): the civil UTC date of t >= 0
UtcFromTimestamp(t) ==
    LET days == t \div 86400
        secs == t % 86400
        z    == days + 719468
        era  == z \div 146097
        doe  == z - era * 146097
        yoe  == (doe - doe \div 1460 + doe \div 36524 - doe \div 146096) \div 365
        doy  == doe - (365 * yoe + yoe \div 4 - yoe \div 100)
        mp   == (5 * doy + 2) \div 153
        d    == doy - (153 * mp + 2) \div 5 + 1
        m    == IF mp < 10 THEN mp + 3 ELSE mp - 9
        y    == yoe + era * 400 + (IF m <= 2 THEN 1 ELSE 0)
    IN  Strftime(y, m, d, secs \div 3600, (secs % 3600) \div 60, secs % 60)

(***************************************************************************)
(* JSON values as json.load returns them.                                  *)
(***************************************************************************)
JNone == [t |-> "none"]
JStr(s) == [t |-> "str", s |-> s]
JNum(n) == [t |-> "num", n |-> n]
JObj(o) == [t |-> "obj", o |-> o]
JEmpty == [t |-> "obj", o |-> <<>>]

\* Python truthiness: None, 0, "" and {} are false
Truthy(j) ==
    CASE j.t = "none" -> FALSE
      [] j.t = "str"  -> j.s # <<>>
      [] j.t = "num"  -> j.n # 0
      [] j.t = "obj"  -> DOMAIN j.o # {}

\* `key in j` raises TypeError on None and on a number
InRaises(j) == j.t \in {"none", "num"}
\* `key in j`: a key of the object (no sample string contains a key's text)
HasKey(j, key) == j.t = "obj" /\ key \in DOMAIN j.o

(***************************************************************************)
(* MONTHS and parse_google_formatted                                       *)
(***************************************************************************)
MonthNames == << <<"J","a","n">>, <<"F","e","b">>, <<"M","a","r">>, <<"A","p","r">>,
                 <<"M","a","y">>, <<"J","u","n">>, <<"J","u","l">>, <<"A","u","g">>,
                 <<"S","e","p">>, <<"O","c","t">>, <<"N","o","v">>, <<"D","e","c">> >>
\* MONTHS.get(name, 0)
MONTHS(name) ==
    IF \E i \in 1..12 : MonthNames[i] = name
    THEN CHOOSE i \in 1..12 : MonthNames[i] = name
    ELSE 0

\* parse_google_formatted(date_str): the canonical date, or None on any
\* exception (a value that is no string has no .strip(): AttributeError)
parse_google_formatted(j) ==
    IF j.t # "str" THEN None
    ELSE
    LET parts == SplitWS(Strip(j.s), <<>>, <<>>) IN
        IF Len(parts) < 4 THEN None
        ELSE IF ~IntOk(parts[1]) \/ ~IntOk(parts[3]) THEN None
        ELSE LET hms == SplitOn(parts[4], ":", <<>>, <<>>) IN
             IF Len(hms) # 3 \/ \E i \in 1..Len(hms) : ~IntOk(hms[i]) THEN None
             ELSE IF ~ValidDateTime(IntOf(parts[3]), MONTHS(parts[2]), IntOf(parts[1]),
                                    IntOf(hms[1]), IntOf(hms[2]), IntOf(hms[3]))
                  THEN None
                  ELSE Strftime(IntOf(parts[3]), MONTHS(parts[2]), IntOf(parts[1]),
                                IntOf(hms[1]), IntOf(hms[2]), IntOf(hms[3]))

(***************************************************************************)
(* extract_date_from_folder and extract_date_from_filename                 *)
(***************************************************************************)
\* re.search(r"(19|20)\d{2}", s): where the leftmost match starts, or 0
YearMatchAt(s, i) ==
    /\ i + 3 <= Len(s)
    /\ SubSeq(s, i, i + 1) \in {<<"1", "9">>, <<"2", "0">>}
    /\ IsDigit(s[i + 2]) /\ IsDigit(s[i + 3])
YearSearch(s) ==
    IF \E i \in 1..Len(s) : YearMatchAt(s, i)
    THEN CHOOSE i \in 1..Len(s) :
            YearMatchAt(s, i) /\ \A j \in 1..(i - 1) : ~YearMatchAt(s, j)
    ELSE 0

extract_date_from_folder(folder_name) ==
    LET i == YearSearch(folder_name) IN
        IF i # 0 THEN Text(SubSeq(folder_name, i, i + 3)) \o ":01:01 12:00:00"
        ELSE None

\* re.search(r"(\d{4})(\d{2})(\d{2})_(\d{2})(\d{2})(\d{2})", s)
StampMatchAt(s, i) ==
    /\ i + 14 <= Len(s)
    /\ \A k \in 0..7 : IsDigit(s[i + k])
    /\ s[i + 8] = "_"
    /\ \A k \in 9..14 : IsDigit(s[i + k])
StampSearch(s) ==
    IF \E i \in 1..Len(s) : StampMatchAt(s, i)
    THEN CHOOSE i \in 1..Len(s) :
            StampMatchAt(s, i) /\ \A j \in 1..(i - 1) : ~StampMatchAt(s, j)
    ELSE 0

extract_date_from_filename(name) ==
    LET stem == PathStem(name)
        i == StampSearch(stem)
        num(a, b) == IntOf(SubSeq(stem, i + a, i + b))
    IN  IF i # 0
        THEN Pad4(num(0, 3)) \o ":" \o Pad2(num(4, 5)) \o ":" \o Pad2(num(6, 7)) \o " "
                \o Pad2(num(9, 10)) \o ":" \o Pad2(num(11, 12)) \o ":" \o Pad2(num(13, 14))
        ELSE None

(***************************************************************************)
(* resolve_date: [raised, val]; raised when an exception leaves it         *)
(***************************************************************************)
Ret(v) == [raised |-> FALSE, val |-> v]
Raise == [raised |-> TRUE, val |-> None]

\* steps 2 and 3 of resolve_date
DateFromNames(name, folder_name) ==
    IF extract_date_from_filename(name) # None
    THEN Ret(extract_date_from_filename(name))
    ELSE Ret(extract_date_from_folder(folder_name))

\* int(pt["timestamp"]): a number as it is, a string when it is digits
TimestampOk(j) == j.t = "num" \/ (j.t = "str" /\ IntOk(Strip(j.s)))
TimestampOf(j) == IF j.t = "num" THEN j.n ELSE IntOf(Strip(j.s))

resolve_date(jd, name, folder_name) ==
    IF ~Truthy(jd) THEN DateFromNames(name, folder_name)
    ELSE IF InRaises(jd) THEN Raise
    ELSE IF ~HasKey(jd, "photoTakenTime") THEN DateFromNames(name, folder_name)
    ELSE LET pt == jd.o.photoTakenTime IN
         IF InRaises(pt) THEN Raise
         ELSE LET exif_date ==
                    IF HasKey(pt, "formatted") /\ Truthy(pt.o.formatted)
                    THEN parse_google_formatted(pt.o.formatted)
                    ELSE None
              IN  IF exif_date # None THEN Ret(exif_date)
                  ELSE IF HasKey(pt, "timestamp") /\ Truthy(pt.o.timestamp)
                       THEN (IF TimestampOk(pt.o.timestamp)
                             THEN Ret(UtcFromTimestamp(TimestampOf(pt.o.timestamp)))
                             ELSE Raise)
                       ELSE DateFromNames(name, folder_name)


(***************************************************************************)
(* Sample inputs.                                                          *)
(***************************************************************************)
F_plain == <<"2", "6", " ", "J", "a", "n", " ", "2", "0", "2", "3", " ", "2", "0", ":", "3", "9", ":", "2", "9">>
F_comma == <<"2", "6", " ", "J", "a", "n", " ", "2", "0", "2", "3", ",", " ", "2", "0", ":", "3", "9", ":", "2", "9">>
F_badday == <<"3", "1", " ", "F", "e", "b", " ", "2", "0", "2", "3", " ", "1", "0", ":", "0", "0", ":", "0", "0">>
TS_ok == <<"9", "5", "1", "7", "8", "2", "4", "0", "0">>
TS_bad == <<"a", "b", "c">>
N_dated == <<"2", "0", "2", "1", "0", "3", "0", "5", "_", "0", "7", "0", "5", "0", "9", ".", "j", "p", "g">>
N_wild == <<"I", "M", "_", "2", "0", "2", "3", "1", "3", "4", "5", "_", "9", "9", "6", "1", "9", "9", ".", "j", "p", "g">>
N_heic == <<"a", ".", "h", "e", "i", "c">>
N_jpg == <<"a", ".", "j", "p", "g">>
N_noext == <<"b">>
N_sp == <<" ", "a", ".", "h", "e", "i", "c">>
J_heic == <<"a", ".", "h", "e", "i", "c", ".", "j", "s", "o", "n">>
J_HEIC == <<"A", ".", "H", "E", "I", "C", ".", "j", "s", "o", "n">>
J_jpg == <<"a", ".", "j", "p", "g", ".", "j", "s", "o", "n">>
J_JPG == <<"A", ".", "J", "P", "G", ".", "j", "s", "o", "n">>
D_trip == <<"T", "r", "i", "p">>
D_2019 == <<"P", "h", "o", "t", "o", "s", " ", "2", "0", "1", "9">>
D_mixed == <<"a", "1", "8", "9", "9", " ", "2", "0", "5", "1">>

\* a Takeout sidecar: Google's "formatted" carries a comma after the year
S_google ==
    JObj([photoTakenTime |-> JObj([formatted |-> JStr(F_comma), timestamp |-> JStr(TS_ok)]),
          geoData |-> JObj([latitude |-> JNum(51), longitude |-> JNum(0)]),
          description |-> JStr(<<"x">>)])
S_badts == JObj([photoTakenTime |-> JObj([timestamp |-> JStr(TS_bad)])])
S_invalid == [t |-> "invalid"]

\* what resolve_date is applied to in SpecResolve
ResolveJson ==
    { JNone, JEmpty, S_google, S_badts,
      JObj([photoTakenTime |-> JObj([formatted |-> JStr(F_plain), timestamp |-> JStr(TS_ok)])]),
      JObj([photoTakenTime |-> JObj([formatted |-> JStr(F_badday)])]),
      JObj([photoTakenTime |-> JObj([formatted |-> JNum(5), timestamp |-> JNum(86399)])]),
      JObj([photoTakenTime |-> JObj([formatted |-> JStr(<<>>), timestamp |-> JNum(0)])]),
      JObj([photoTakenTime |-> JNone]),
      JObj([description |-> JStr(<<"x">>)]) }
ResolveNames == {N_dated, N_wild, N_heic, N_noext}
ResolveFolders == {D_trip, D_2019, D_mixed}

(***************************************************************************)
(* The files a folder may hold: a name and what the file is.  An entry of  *)
(* a listing is [name, id], id the index here (the file's identity, which  *)
(* a rename keeps).  fmt is the container format the bytes really have.    *)
(***************************************************************************)
Universe ==
    << [name |-> N_heic, json |-> JNone,     fmt |-> "jpeg"],
       [name |-> N_jpg,  json |-> JNone,     fmt |-> "jpeg"],
       [name |-> J_heic, json |-> S_google,  fmt |-> "json"],
       [name |-> J_HEIC, json |-> JEmpty,    fmt |-> "json"],
       [name |-> J_jpg,  json |-> S_badts,   fmt |-> "json"],
       [name |-> J_JPG,  json |-> S_invalid, fmt |-> "json"],
       [name |-> N_sp,   json |-> JNone,     fmt |-> "jpeg"] >>
Ids == 1..Len(Universe)
\* the files of the runs, and the files find_matching_json is applied to
RunIds == 1..6
MatchIds == {1, 3, 4, 5, 7}
Entry(i) == [name |-> Universe[i].name, id |-> i]
NoEntry == [name |-> NoName, id |-> 0]

Injective(s) == \A i, j \in 1..Len(s) : i # j => s[i] # s[j]
Listings(ids) ==
    { [k \in 1..Len(s) |-> Entry(s[k])] :
        s \in { q \in UNION { [1..n -> ids] : n \in 1..MaxEntries } : Injective(q) } }

Names(l) == { l[i].name : i \in 1..Len(l) }
RECURSIVE SelectEntries(_, _)
SelectEntries(l, keep) ==
    IF l = <<>> THEN <<>>
    ELSE IF keep[1] THEN <<Head(l)>> \o SelectEntries(Tail(l), Tail(keep))
         ELSE SelectEntries(Tail(l), Tail(keep))

DotJson == <<".", "j", "s", "o", "n">>

\* main's enumeration: the files whose lower-cased name does not end in .json
MediaFiles(l) ==
    SelectEntries(l, [i \in 1..Len(l) |-> ~EndsWith(Lower(l[i].name), DotJson)])

(***************************************************************************)
(* find_matching_json                                                      *)
(***************************************************************************)
\* glob("*.json") yields the entry, and its lower-cased name starts with base
Qualifies(e, name) ==
    /\ EndsWith(e.name, DotJson)
    /\ StartsWith(Lower(e.name), Lower(Strip(name)))

\* The mutant of find_matching_json: the last match of the listing.
find_matching_json_last(name, l) ==
    IF \E i \in 1..Len(l) : Qualifies(l[i], name)
    THEN l[CHOOSE i \in 1..Len(l) :
              Qualifies(l[i], name) /\ \A j \in (i + 1)..Len(l) : ~Qualifies(l[j], name)]
    ELSE NoEntry

\* the first entry that qualifies, in the order the folder lists its entries
find_matching_json(name, l) ==
    IF \E i \in 1..Len(l) : Qualifies(l[i], name)
    THEN l[CHOOSE i \in 1..Len(l) :
              Qualifies(l[i], name) /\ \A j \in 1..(i - 1) : ~Qualifies(l[j], name)]
    ELSE NoEntry

(***************************************************************************)
(* shutil.move within the folder (os.rename): the entry takes the new      *)
(* name, an entry that held that name is replaced, and the place of the    *)
(* renamed entry in the listing is the file system's choice (pos).         *)
(***************************************************************************)
InsertAt(l, pos, e) == SubSeq(l, 1, pos - 1) \o <<e>> \o SubSeq(l, pos, Len(l))
Move(l, old, new, pos) ==
    IF old = new \/ ~(old \in Names(l)) THEN l
    ELSE LET src == CHOOSE i \in 1..Len(l) : l[i].name = old
             rest == SelectEntries(l, [i \in 1..Len(l) |-> l[i].name # old /\ l[i].name # new])
             p == IF pos > Len(rest) + 1 THEN Len(rest) + 1 ELSE pos
         IN  InsertAt(rest, p, [name |-> new, id |-> l[src].id])


(***************************************************************************)
(* The external tool.  stderr is the set of the fragments it holds.        *)
(***************************************************************************)
NotHEIC == "Not a valid HEIC"
NotJPEG == "Not a valid JPEG"
OIS == "OtherImageStart"
OtherText == "Warning: other"
StderrSamples ==
    { {}, {NotHEIC}, {NotJPEG}, {OIS}, {OIS, NotJPEG}, {OtherText} }
Readbacks == {"", "0000:00:00 00:00:00"}
DotJpg == <<".", "j", "p", "g">>
DotHeic == <<".", "h", "e", "i", "c">>

\* what a write of date d to file f may answer
ToolWrite(f) ==
    IF tool = "faithful"
    THEN IF Lower(PathSuffix(f.name)) = DotHeic /\ Universe[f.id].fmt = "jpeg"
         THEN {[stderr |-> {NotHEIC}, rc |-> 1]}
         ELSE IF Lower(PathSuffix(f.name)) = DotJpg /\ Universe[f.id].fmt = "heic"
              THEN {[stderr |-> {NotJPEG}, rc |-> 1]}
              ELSE {[stderr |-> {}, rc |-> 0]}
    ELSE [stderr : StderrSamples, rc : {0, 1}]

\* what the read-back of DateTimeOriginal may print, d the date requested
ToolRead(f, d) ==
    IF tool = "faithful" THEN {exif[f.id]} ELSE Readbacks \cup {d}

(***************************************************************************)
(* update_exif, after the write: which way the attempt goes                *)
(***************************************************************************)
Mismatch(err) == NotHEIC \in err \/ NotJPEG \in err

\* The mutant of WriteBranch: the exit code is looked at before the benign
\* marker.
WriteBranch_rc_first(err, code) ==
    IF Mismatch(err) THEN "retry"
    ELSE IF code # 0 THEN "FAILED"
    ELSE IF OIS \in err THEN "SKIPPED"
    ELSE "validate"

WriteBranch(err, code) ==
    IF Mismatch(err) THEN "retry"
    ELSE IF OIS \in err THEN "SKIPPED"
    ELSE IF code # 0 THEN "FAILED"
    ELSE "validate"

\* The mutant of ValidateStatus: the read-back is not compared.
ValidateStatus_unchecked(read, d) == "UPDATED"

ValidateStatus(read, d) == IF read # d THEN "FAILED" ELSE "UPDATED"

\* the optional arguments of the write command
BuildCmd(jd) ==
    LET geo == IF HasKey(jd, "geoDataExif") /\ Truthy(jd.o.geoDataExif) THEN jd.o.geoDataExif
               ELSE IF HasKey(jd, "geoData") THEN jd.o.geoData ELSE JNone
    IN  {"-FileModifyDate"}
        \cup (IF Truthy(jd) /\ Truthy(geo)
                 /\ HasKey(geo, "latitude") /\ Truthy(geo.o.latitude)
                 /\ HasKey(geo, "longitude") /\ Truthy(geo.o.longitude)
              THEN {"-GPSLatitude", "-GPSLongitude"} ELSE {})
        \cup (IF Truthy(jd) /\ HasKey(jd, "description") /\ Truthy(jd.o.description)
              THEN {"-ImageDescription"} ELSE {})

(***************************************************************************)
(* main: the counters                                                      *)
(***************************************************************************)
\* The mutant of Tally: a skipped file is not counted.
Tally_drop_skipped(st) ==
    [updated |-> updated + (IF st = "UPDATED" THEN 1 ELSE 0),
     skipped |-> skipped,
     failed  |-> failed + (IF st = "FAILED" THEN 1 ELSE 0)]

Tally(st) ==
    [updated |-> updated + (IF st = "UPDATED" THEN 1 ELSE 0),
     skipped |-> skipped + (IF st \notin {"UPDATED", "FAILED"} THEN 1 ELSE 0),
     failed  |-> failed + (IF st = "FAILED" THEN 1 ELSE 0)]

NoOutcome == [status |-> "", date |-> None]
NoHist == [attempts |-> 0, via |-> "", branch |-> "",
           prev_name |-> NoName, prev_sidecar |-> NoEntry]

\* the listing's entry of that name
EntryOf(l, name) ==
    IF name \in Names(l) THEN l[CHOOSE i \in 1..Len(l) : l[i].name = name] ELSE NoEntry

\* the iteration of main's loop ends with status st for file f
EndFile(f, st, d, err) ==
    /\ status' = st
    /\ error' = err
    /\ date_str' = d
    /\ updated' = Tally(st).updated
    /\ skipped' = Tally(st).skipped
    /\ failed' = Tally(st).failed
    /\ log' = [log EXCEPT ![run][f.id] = [status |-> st, date |-> d]]
    /\ pc' = "loop"

(***************************************************************************)
(* main, lines 166-179: the next file, its sidecar found and loaded        *)
(***************************************************************************)
LoadSidecar ==
    /\ pc = "loop"
    /\ idx < Len(all_files)
    /\ idx' = idx + 1
    /\ LET f == EntryOf(listing, all_files[idx + 1].name)
           json_file == find_matching_json(f.name, listing)
       IN  /\ match' = json_file
           /\ cur_path' = f
           /\ depth' = 0
           /\ stderr' = {}
           /\ rc' = 0
           /\ cmd' = {}
           /\ actual' = ""
           /\ IF json_file # NoEntry /\ Universe[json_file.id].json = S_invalid
              THEN /\ EndFile(f, "FAILED", None, "JSONDecodeError")
                   /\ hist' = [NoHist EXCEPT !.via = "json"]
                   /\ json_data' = JNone
              ELSE /\ json_data' = (IF json_file = NoEntry THEN JNone
                                    ELSE Universe[json_file.id].json)
                   /\ hist' = NoHist
                   /\ status' = ""
                   /\ error' = None
                   /\ date_str' = None
                   /\ pc' = "exif"
                   /\ UNCHANGED <<updated, skipped, failed, log>>
    /\ UNCHANGED <<dirName, listing, exif, all_files, run, tool, listing0>>

(***************************************************************************)
(* update_exif, lines 91-139: resolve the date, run the write, and take    *)
(* the branch its answer selects; a mismatch renames and re-invokes.       *)
(***************************************************************************)
WriteAttempt ==
    /\ pc = "exif"
    /\ LET r == resolve_date(json_data, cur_path.name, dirName) IN
       IF r.raised
       THEN /\ EndFile(cur_path, "FAILED", None, "ValueError")
            /\ hist' = [hist EXCEPT !.via = "exception"]
            /\ UNCHANGED <<listing, exif, cur_path, depth, stderr, rc, cmd>>
       ELSE IF r.val = None
       THEN /\ EndFile(cur_path, "SKIPPED", None, "No date available")
            /\ hist' = [hist EXCEPT !.via = "return"]
            /\ UNCHANGED <<listing, exif, cur_path, depth, stderr, rc, cmd>>
       ELSE \E w \in ToolWrite(cur_path) :
            LET br == WriteBranch(w.stderr, w.rc)
                new_name == WithSuffix(cur_path.name, DotJpg)
                moves == br = "retry" /\ new_name # cur_path.name
            IN
            \E p1 \in (IF moves THEN 1..Len(listing) ELSE {1}) :
            LET l1 == Move(listing, cur_path.name, new_name, p1)
                old_json == IF Truthy(json_data)
                            THEN find_matching_json(cur_path.name, l1) ELSE NoEntry
                new_json == PathStem(new_name) \o PathSuffix(old_json.name)
                jmoves == br = "retry" /\ old_json # NoEntry /\ new_json # old_json.name
            IN
            \E p2 \in (IF jmoves THEN 1..Len(l1) ELSE {1}) :
            LET l2 == IF old_json # NoEntry THEN Move(l1, old_json.name, new_json, p2) ELSE l1
                h == [attempts |-> hist.attempts + 1, via |-> "", branch |-> br,
                      prev_name |-> cur_path.name,
                      prev_sidecar |-> find_matching_json(cur_path.name, listing)]
            IN
            /\ stderr' = w.stderr
            /\ rc' = w.rc
            /\ cmd' = BuildCmd(json_data)
            /\ IF br = "retry"
               THEN /\ listing' = l2
                    /\ cur_path' = [name |-> new_name, id |-> cur_path.id]
                    /\ exif' = exif
                    /\ IF depth >= RecursionLimit
                       THEN /\ EndFile(cur_path, "FAILED", r.val, "RecursionError")
                            /\ hist' = [h EXCEPT !.via = "exception"]
                            /\ depth' = depth
                       ELSE /\ depth' = depth + 1
                            /\ hist' = h
                            /\ date_str' = r.val
                            /\ status' = ""
                            /\ error' = None
                            /\ pc' = "exif"
                            /\ UNCHANGED <<updated, skipped, failed, log>>
               ELSE IF br = "validate"
               THEN /\ exif' = [exif EXCEPT ![cur_path.id] = r.val]
                    /\ hist' = h
                    /\ date_str' = r.val
                    /\ status' = ""
                    /\ error' = None
                    /\ pc' = "validate"
                    /\ UNCHANGED <<listing, cur_path, depth, updated, skipped, failed, log>>
               ELSE /\ EndFile(cur_path, br, r.val,
                               IF w.stderr = {} THEN "Exiftool failed" ELSE "stderr")
                    /\ hist' = [h EXCEPT !.via = "return"]
                    /\ UNCHANGED <<listing, exif, cur_path, depth>>
    /\ UNCHANGED <<dirName, all_files, idx, json_data, run, tool, actual, match, listing0>>

(***************************************************************************)
(* update_exif, lines 141-150: read the date back and compare              *)
(***************************************************************************)
Validate ==
    /\ pc = "validate"
    /\ \E read \in ToolRead(cur_path, date_str) :
        /\ actual' = read
        /\ EndFile(cur_path, ValidateStatus(read, date_str), date_str,
                   IF ValidateStatus(read, date_str) = "FAILED"
                   THEN "Validation mismatch" ELSE None)
    /\ hist' = [hist EXCEPT !.via = "return"]
    /\ UNCHANGED <<dirName, listing, exif, all_files, idx, json_data, cur_path, depth,
                   stderr, rc, cmd, run, tool, match, listing0>>

(***************************************************************************)
(* main, lines 196-200: the loop is over, the summary is printed           *)
(***************************************************************************)
Summary ==
    /\ pc = "loop"
    /\ idx = Len(all_files)
    /\ pc' = "done"
    /\ UNCHANGED <<dirName, listing, exif, all_files, idx, json_data, cur_path, depth,
                   date_str, stderr, rc, cmd, status, error, updated, skipped, failed,
                   run, tool, log, hist, actual, match, listing0>>

(***************************************************************************)
(* The tool is run a second time on the folder as the first run left it.   *)
(***************************************************************************)
SecondRun ==
    /\ pc = "done"
    /\ run = 1
    /\ run' = 2
    /\ all_files' = MediaFiles(listing)
    /\ listing0' = listing
    /\ idx' = 0
    /\ updated' = 0 /\ skipped' = 0 /\ failed' = 0
    /\ pc' = "loop"
    /\ status' = "" /\ error' = None /\ date_str' = None
    /\ hist' = NoHist
    /\ UNCHANGED <<dirName, listing, exif, json_data, cur_path, depth, stderr, rc, cmd,
                   tool, log, actual, match>>

(***************************************************************************)
(* Specifications.                                                         *)
(***************************************************************************)
InitRun(l, t) ==
    /\ listing = l
    /\ listing0 = l
    /\ exif = [i \in Ids |-> ""]
    /\ all_files = MediaFiles(l)
    /\ idx = 0
    /\ json_data = JNone
    /\ cur_path = NoEntry
    /\ depth = 0
    /\ date_str = None
    /\ stderr = {}
    /\ rc = 0
    /\ cmd = {}
    /\ status = ""
    /\ error = None
    /\ updated = 0 /\ skipped = 0 /\ failed = 0
    /\ run = 1
    /\ tool = t
    /\ log = [k \in 1..2 |-> [i \in Ids |-> NoOutcome]]
    /\ hist = NoHist
    /\ actual = ""
    /\ match = NoEntry

\* one run of main over a folder, the external tool answering anything
Init ==
    /\ pc = "loop"
    /\ dirName \in {D_trip, D_2019}
    /\ \E l \in Listings(RunIds) : InitRun(l, "any")

Next == LoadSidecar \/ WriteAttempt \/ Validate \/ Summary

Spec == Init /\ [][Next]_vars

\* two runs in a row with a tool that writes and reads back faithfully
InitTwice ==
    /\ pc = "loop"
    /\ dirName \in {D_trip, D_2019}
    /\ \E l \in Listings(RunIds) : InitRun(l, "faithful")

NextTwice == LoadSidecar \/ WriteAttempt \/ Validate \/ Summary \/ SecondRun

SpecTwice == InitTwice /\ [][NextTwice]_vars

\* resolve_date applied to sample inputs
InitResolve ==
    /\ pc = "resolve"
    /\ dirName \in ResolveFolders
    /\ InitRun(<<>>, "any")

ResolveStep ==
    /\ pc = "resolve"
    /\ \E jd \in ResolveJson, n \in ResolveNames :
        /\ json_data' = jd
        /\ cur_path' = [name |-> n, id |-> 0]
        /\ date_str' = resolve_date(jd, n, dirName).val
        /\ status' = IF resolve_date(jd, n, dirName).raised THEN "RAISED" ELSE "RETURNED"
    /\ pc' = "resolved"
    /\ UNCHANGED <<dirName, listing, exif, all_files, idx, depth, stderr, rc, cmd, error,
                   updated, skipped, failed, run, tool, log, hist, actual, match, listing0>>

SpecResolve == InitResolve /\ [][ResolveStep]_vars


\* find_matching_json applied to each media file of sample folders
InitMatch ==
    /\ pc = "match"
    /\ dirName = D_trip
    /\ \E l \in Listings(MatchIds) : InitRun(l, "any")

MatchStep ==
    /\ pc = "match"
    /\ \E i \in 1..Len(all_files) :
        /\ cur_path' = all_files[i]
        /\ match' = find_matching_json(all_files[i].name, listing)
    /\ pc' = "matched"
    /\ UNCHANGED <<dirName, listing, exif, all_files, idx, json_data, depth, date_str,
                   stderr, rc, cmd, status, error, updated, skipped, failed, run, tool,
                   log, hist, actual, listing0>>

SpecMatch == InitMatch /\ [][MatchStep]_vars


(***************************************************************************)
(* Properties.                                                             *)
(***************************************************************************)
Sum == updated + skipped + failed
Ended == pc \in {"loop", "done"} /\ status # ""
Min(S) == CHOOSE x \in S : \A y \in S : x <= y

\* the characters of the alphabet in code-point order
CharOrder == <<" ", ",", ".", "0", "1", "2", "3", "4", "5", "6", "7", "8", "9", ":",
               "A", "B", "C", "E", "F", "G", "H", "I", "J", "M", "P", "T", "_",
               "a", "b", "c", "e", "f", "g", "h", "i", "j", "m", "n", "o", "p", "r",
               "s", "t", "x">>
Ord(c) == CHOOSE i \in 1..Len(CharOrder) : CharOrder[i] = c
RECURSIVE LexLeq(_, _)
LexLeq(a, b) ==
    IF a = <<>> THEN TRUE
    ELSE IF b = <<>> THEN FALSE
    ELSE IF Head(a) # Head(b) THEN Ord(Head(a)) < Ord(Head(b))
    ELSE LexLeq(Tail(a), Tail(b))

\* the date the priority chain of the claim gives: formatted, else the
\* timestamp, else the file name, else the folder, else none
ChainDate(jd, name, folder_name) ==
    LET pt == IF HasKey(jd, "photoTakenTime") THEN jd.o.photoTakenTime ELSE JNone
        f  == IF HasKey(pt, "formatted") THEN parse_google_formatted(pt.o.formatted) ELSE None
        ts == IF HasKey(pt, "timestamp") /\ Truthy(pt.o.timestamp) /\ TimestampOk(pt.o.timestamp)
              THEN UtcFromTimestamp(TimestampOf(pt.o.timestamp)) ELSE None
    IN  IF f # None THEN f
        ELSE IF ts # None THEN ts
        ELSE IF extract_date_from_filename(name) # None THEN extract_date_from_filename(name)
        ELSE extract_date_from_folder(folder_name)

\* C1: resolve_date gives the date of the first source that succeeds, in the
\* order formatted, timestamp, file name, folder, and no date when none does.
C1_PriorityChain ==
    pc = "resolved" =>
        /\ status = "RETURNED"
        /\ date_str = ChainDate(json_data, cur_path.name, dirName)

\* The same on the inputs on which resolve_date returns.
PriorityChainWhenReturned ==
    (pc = "resolved" /\ status = "RETURNED") =>
        date_str = ChainDate(json_data, cur_path.name, dirName)

\* C2: an exception raised while the capture-time field is read never makes
\* the file FAILED; resolution goes on with the file name.
C2_ParseErrorIsSoft ==
    ~(Ended /\ status = "FAILED" /\ error = "ValueError")

\* C3: with a date resolved, update_exif returns UPDATED exactly when the
\* last write exited with zero, its stderr held neither marker and the date
\* read back equals the date requested; a non-zero exit without a marker
\* gives FAILED, and a differing read-back gives FAILED for a validation
\* mismatch.
C3_UpdatedIff ==
    (Ended /\ hist.via = "return" /\ date_str # None) =>
        LET clean == ~Mismatch(stderr) /\ OIS \notin stderr IN
        /\ status = "UPDATED" <=> (rc = 0 /\ clean /\ actual = date_str)
        /\ (rc # 0 /\ clean) => status = "FAILED"
        /\ (rc = 0 /\ clean /\ actual # date_str) =>
                (status = "FAILED" /\ error = "Validation mismatch")

\* update_exif returned UPDATED from the retry that followed a rename
C3_Witness ==
    /\ Ended /\ hist.via = "return" /\ status = "UPDATED"
    /\ hist.attempts = 2 /\ actual = date_str /\ rc = 0 /\ stderr = {OtherText}

\* C4 as stated: stderr holding OtherImageStart gives SKIPPED whatever else
\* stderr holds, with no rename and no retry.
C4_SkippedWhateverElse ==
    (hist.attempts > 0 /\ OIS \in stderr) =>
        /\ Ended /\ status = "SKIPPED"
        /\ cur_path.name = hist.prev_name

\* C4, amended: stderr holding OtherImageStart and no format-mismatch marker
\* gives SKIPPED whatever the exit code: the file and its sidecar keep their
\* names, nothing is retried, the file is not FAILED.
C4_SkippedUnlessMismatch ==
    (hist.attempts > 0 /\ OIS \in stderr /\ ~Mismatch(stderr)) =>
        /\ Ended /\ status = "SKIPPED" /\ hist.via = "return"
        /\ cur_path.name = hist.prev_name
        /\ EntryOf(listing, cur_path.name) = cur_path
        /\ find_matching_json(cur_path.name, listing) = hist.prev_sidecar

\* OtherImageStart with a non-zero exit code, on a retry, ended SKIPPED
C4_Witness ==
    /\ OIS \in stderr /\ ~Mismatch(stderr) /\ rc # 0
    /\ status = "SKIPPED" /\ hist.attempts = 2

\* C5: after a write whose stderr carries the format-mismatch marker the
\* media file has the name stem.jpg, the sidecar it matched has the name of
\* the new stem plus the sidecar's own extension, and the write is retried
\* on the new path.
C5_RenameRetry ==
    (hist.branch = "retry") =>
        /\ cur_path.name = WithSuffix(hist.prev_name, DotJpg)
        /\ EntryOf(listing, cur_path.name) = cur_path
        /\ hist.prev_sidecar # NoEntry =>
              EntryOf(listing, PathStem(cur_path.name) \o PathSuffix(hist.prev_sidecar.name)).id
                  = hist.prev_sidecar.id
        /\ pc = "exif"

\* C6: the write of a file is retried at most once.
C6_AtMostOneRetry == hist.attempts <= 2

\* how far the run is from its summary: the files still to begin, and
\* within a file the steps update_exif can still take
Rank ==
    LET left == (Len(all_files) - idx) * (RecursionLimit + 5) IN
    CASE pc = "done" -> 0
      [] pc = "loop" -> left + 1
      [] pc = "validate" -> left + 2
      [] pc = "exif" -> left + 3 + (RecursionLimit - depth)

NotStuck ==
    /\ pc \in {"loop", "exif", "validate", "done"}
    /\ idx <= Len(all_files)
    /\ pc \in {"exif", "validate"} => (idx >= 1 /\ depth <= RecursionLimit)

\* C7: each file of the list is counted exactly once: after k files the
\* three counters sum to k, at the summary they sum to the total, and every
\* step brings the summary nearer, whatever error the step met.
C7_CountedOnce ==
    /\ [](/\ pc = "loop" => Sum = idx
          /\ pc \in {"exif", "validate"} => Sum = idx - 1
          /\ pc = "done" => (idx = Len(all_files) /\ Sum = Len(all_files))
          /\ NotStuck)
    /\ [][Rank' < Rank /\ idx' \in {idx, idx + 1}]_vars

\* the summary after two files, one UPDATED and one FAILED by an exception
\* or an unreadable sidecar
C7_Witness ==
    /\ pc = "done" /\ Len(all_files) = 2
    /\ updated = 1 /\ failed = 1
    /\ error \in {"JSONDecodeError", "ValueError", "RecursionError"}

\* the entries find_matching_json may return for a name: glob's *.json,
\* the lower-cased name starting with the lower-cased media name as given
QualifiesAsStated(i, name) ==
    /\ EndsWith(listing[i].name, DotJson)
    /\ StartsWith(Lower(listing[i].name), Lower(name))
\* the same with the media name stripped of surrounding whitespace
QualifiesStripped(i, name) ==
    /\ EndsWith(listing[i].name, DotJson)
    /\ StartsWith(Lower(listing[i].name), Lower(Strip(name)))

C9_Idempotent ==
    (run = 2 /\ pc = "done") =>
        \A i \in RunIds :
            (log[1][i].status = "UPDATED" /\ \E k \in 1..Len(listing) : listing[k].id = i)
                => log[2][i] = log[1][i]

\* C10: processing a file leaves every other file of the list in place under
\* its name, and leaves the sidecar every file still to come matches.
C10_Isolation ==
    \A k \in 1..Len(all_files) :
        /\ \E i \in 1..Len(listing) : listing[i].id = all_files[k].id
        /\ k > idx =>
              /\ EntryOf(listing, all_files[k].name) = all_files[k]
              /\ find_matching_json(all_files[k].name, listing)
                    = find_matching_json(all_files[k].name, listing0)

=============================================================================
